---- MODULE Spec2Model ----
(***************************************************************************)
(* Port-forward session of code/network/multi_portfwd.cpp: the three       *)
(* public operations multi_port_forward_init / _do / _close over the       *)
(* static session state, with the PCP engine, the resolver, the clock and  *)
(* the multi log as the environment.                                       *)
(*                                                                         *)
(* Every operation is one atomic step (the module is single threaded).     *)
(* The step records in `trace` the calls it made on its collaborators, in  *)
(* order, as triples <<callee, detail, number>>.                           *)
(***************************************************************************)
EXTENDS Integers, Sequences, FiniteSets, TLC

VARIABLES
    PF_initted,         \* static bool PF_initted
    PF_pcp_ctx,         \* static pcp_ctx_t *PF_pcp_ctx   (0 is nullptr)
    PF_pcp_flow,        \* static pcp_flow_t *PF_pcp_flow (0 is nullptr)
    PF_wait_timestamp,  \* static int PF_wait_timestamp
    now,                \* what timer_get_milliseconds() returns when read
    liveCtx,            \* engine: contexts constructed and not yet terminated
    flowOwner,          \* engine: flow -> the context that holds it (0: none)
    engState,           \* engine: state of the session's flow
    engChanged,         \* engine: a state change not yet read by the client
    engineFault,        \* engine: a call was made on a handle that is not live
    lastOp,             \* the operation of the last step
    args,               \* what the last init call was given by its environment
    initAt,             \* the call of the last step before which PF_initted was
                        \* set to true (its place in trace; 0: it was not set)
    trace               \* the collaborator calls of the last step, in order

vars == <<PF_initted, PF_pcp_ctx, PF_pcp_flow, PF_wait_timestamp, now, liveCtx,
          flowOwner, engState, engChanged, engineFault, lastOp, args, initAt,
          trace>>

-----------------------------------------------------------------------------
(* Bounds of the model *)

MaxCtx == 2         \* distinct addresses pcp_init may return
MaxFlow == 2        \* distinct addresses pcp_new_flow may return
MaxClock == 2       \* clock ticks explored above each starting clock value
MaxHint == 1        \* pcp_pulse returns a wait hint in -MaxHint..MaxHint
MaxInfo == 2        \* entries pcp_flow_get_info may report
MaxAddrs == 1       \* entries getaddrinfo may return

(* Program constants *)

IntMax == 2147483647                \* PF_wait_timestamp is an int
PCP_MAX_SUPPORTED_VERSION == 2

NULL == 0
IntMin == (-IntMax) - 1

CtxIds == 1..MaxCtx
FlowIds == 1..MaxFlow
Hints == (-MaxHint)..MaxHint
FlowStates == {"pcp_state_processing", "pcp_state_succeeded", "pcp_state_failed"}
Families == {"AF_INET", "AF_INET6", "AF_OTHER"}

(* The clock is explored just after program start, 0..MaxClock, and just   *)
(* below INT_MAX, IntMax - MaxClock..IntMax; ClockTop is where each ends.   *)
ClockTop(t) == IF t <= MaxClock THEN MaxClock ELSE IntMax

-----------------------------------------------------------------------------
(* int arithmetic: the sum of two ints. Where the sum leaves the range of   *)
(* int it is the two's complement result of the 32-bit add the expression   *)
(* compiles to; the sum is formed without leaving the range itself.         *)

Add32(a, b) ==
    IF a > 0 /\ b > 0 /\ a > IntMax - b
    THEN (a - IntMax - 1) + (b - IntMax - 1)
    ELSE IF a < 0 /\ b < 0 /\ a < IntMin - b
    THEN (a + IntMax + 1) + (b + IntMax + 1)
    ELSE a + b

-----------------------------------------------------------------------------
(* The state as a record, so that the operations are functions of it *)

Cur ==
    [PF_initted |-> PF_initted, PF_pcp_ctx |-> PF_pcp_ctx, PF_pcp_flow |-> PF_pcp_flow,
     PF_wait_timestamp |-> PF_wait_timestamp, now |-> now, liveCtx |-> liveCtx,
     flowOwner |-> flowOwner, engState |-> engState, engChanged |-> engChanged,
     engineFault |-> engineFault, initAt |-> 0, trace |-> <<>>]

(* The element of a one-element set. A statement that reads the state the   *)
(* statement before it left is written {after(s1) : s1 \in {before}}, so    *)
(* that the state before is worked out once however often it is read.      *)
Only(S) == CHOOSE r \in S : TRUE

Call(s, callee, detail, n) == [s EXCEPT !.trace = Append(@, <<callee, detail, n>>)]

(* ml_string / ml_printf: one line on the multi log *)
ml_string(s, line) == Call(s, "ml", line, 0)
ml_printf(s, line, n) == Call(s, "ml", line, n)

(* timer_get_milliseconds(): reads the clock *)
timer_get_milliseconds(s) == Call(s, "timer_get_milliseconds", "", s.now)

-----------------------------------------------------------------------------
(* The PCP engine, as far as the session can observe it *)

(* pcp_init: c is the context returned, NULL when construction fails *)
pcp_init(s, mode, c) ==
    [Call(s, "pcp_init", mode, c) EXCEPT
        !.liveCtx = IF c = NULL THEN @ ELSE @ \cup {c}]

pcp_add_server(s, c, version) ==
    [Call(s, "pcp_add_server", "", version) EXCEPT
        !.engineFault = @ \/ c \notin s.liveCtx]

(* pcp_new_flow: f is the flow returned, NULL when the request fails *)
pcp_new_flow(s, c, addr, f) ==
    [Call(s, "pcp_new_flow", addr, f) EXCEPT
        !.engineFault = @ \/ c \notin s.liveCtx,
        !.flowOwner = IF f = NULL THEN @ ELSE [@ EXCEPT ![f] = c],
        !.engState = "pcp_state_processing",
        !.engChanged = FALSE]

(* pcp_pulse: returns hint; while it runs dt ms pass and the flow may move   *)
(* to state tr ("" when it does not move), which flags the change.           *)
pcp_pulse(s, c, hint, dt, tr) ==
    LET moves == tr # "" /\ \E f \in FlowIds : s.flowOwner[f] = c
    IN  [Call(s, "pcp_pulse", "", hint) EXCEPT
            !.engineFault = @ \/ c \notin s.liveCtx,
            !.now = IF dt > ClockTop(@) - @ THEN ClockTop(@) ELSE @ + dt,
            !.engState = IF moves THEN tr ELSE @,
            !.engChanged = IF moves THEN TRUE ELSE @]

(* pcp_eval_flow_state: reports (changed, state) and consumes the flag *)
pcp_eval_flow_state(s, f) ==
    [Call(s, "pcp_eval_flow_state", s.engState, IF s.engChanged THEN 1 ELSE 0) EXCEPT
        !.engineFault = @ \/ f = NULL \/ s.flowOwner[f] = NULL,
        !.engChanged = FALSE]

(* pcp_flow_get_info: n entries; the list is NULL when n = 0 and alloc fails *)
pcp_flow_get_info(s, f, isnull, n) ==
    [Call(s, "pcp_flow_get_info", IF isnull THEN "nullptr" ELSE "list", n) EXCEPT
        !.engineFault = @ \/ f = NULL \/ s.flowOwner[f] = NULL]

free(s) == Call(s, "free", "", 0)

(* pcp_terminate: closes the context and the flows it holds *)
pcp_terminate(s, c) ==
    [Call(s, "pcp_terminate", "", c) EXCEPT
        !.engineFault = @ \/ c \notin s.liveCtx,
        !.liveCtx = @ \ {c},
        !.flowOwner = [f \in FlowIds |-> IF @[f] = c THEN NULL ELSE @[f]],
        !.engState = "pcp_state_processing",
        !.engChanged = FALSE]

-----------------------------------------------------------------------------
(* PF_get_addr: res is what getaddrinfo() answers, [err, fams]: whether it   *)
(* fails, and the address families of the entries it returns, in order.      *)

RECURSIVE FirstUsable(_, _)
FirstUsable(fams, i) ==
    IF i > Len(fams) THEN ""
    ELSE IF fams[i] = "AF_INET" \/ fams[i] = "AF_INET6" THEN fams[i]
    ELSE FirstUsable(fams, i + 1)

(* Returns [s, ok, addr]: the state, the return value and the content of    *)
(* *addr, which is left as the caller passed it when nothing is copied.      *)
PF_get_addr(s, host, res) ==
    LET s1 == Call(s, "getaddrinfo", host, IF res.err THEN 1 ELSE 0)
    IN  IF res.err
        THEN [s |-> ml_printf(s1, "PF_get_addr : getaddrinfo()", 0),
              ok |-> FALSE, addr |-> "uninitialized"]
        ELSE LET fam == FirstUsable(res.fams, 1)
                 s2 == Call(s1, "freeaddrinfo", "", 0)
             IN  [s |-> s2, ok |-> fam # "",
                  addr |-> IF fam # "" THEN fam ELSE "uninitialized"]

PF_log_init(s) == Call(s, "PF_log_init", "", 0)

-----------------------------------------------------------------------------
(* multi_port_forward_close *)

(* line 158 left out *)
CloseGuard_Missing(s) == FALSE

CloseGuard(s) == ~s.PF_initted

(* line 164 with the test turned round *)
CloseLog_Inverted(s) ==
    IF s.PF_pcp_flow = NULL
    THEN ml_string(s, "Port forward => Mapping removed")
    ELSE ml_string(s, "Port forward => Shutdown")

CloseLog(s) ==
    IF s.PF_pcp_flow # NULL
    THEN ml_string(s, "Port forward => Mapping removed")
    ELSE ml_string(s, "Port forward => Shutdown")

(* line 172 left out *)
CloseReset_KeepsFlow(s) ==
    [s EXCEPT !.PF_pcp_ctx = NULL, !.PF_initted = FALSE, !.PF_wait_timestamp = 0]

(* line 175 left out *)
CloseReset_KeepsTimestamp(s) ==
    [s EXCEPT !.PF_pcp_ctx = NULL, !.PF_pcp_flow = NULL, !.PF_initted = FALSE]

CloseReset(s) ==
    [s EXCEPT !.PF_pcp_ctx = NULL, !.PF_pcp_flow = NULL,
              !.PF_initted = FALSE, !.PF_wait_timestamp = 0]

multi_port_forward_close(s) ==
    IF CloseGuard(s) THEN s
    ELSE CloseReset(CloseLog(pcp_terminate(s, s.PF_pcp_ctx)))

-----------------------------------------------------------------------------
(* multi_port_forward_do; in = [hint, dt, tr, isnull, n] are the engine's    *)
(* answers during the call.                                                  *)

(* line 112 with the comparison turned round *)
WaitGate_Reversed(wait, t) == wait < t

(* line 112 with >= for > *)
WaitGate_Inclusive(wait, t) == wait >= t

(* the gate of line 112: the call returns while the timestamp is ahead *)
WaitGate(wait, t) == wait > t

RECURSIVE LogFlowInfo(_, _, _)
LogFlowInfo(s, idx, info_count) ==
    IF ~(idx < info_count) THEN s
    ELSE LogFlowInfo(
            ml_printf(ml_printf(s, "Port forward => Mapping successful", idx),
                      "Port forward => Mapping valid until", idx),
            idx + 1, info_count)

(* lines 149-151 left out *)
FreeFlowInfo_Leaks(s, isnull) == s

(* lines 149-151 *)
FreeFlowInfo(s, isnull) == IF ~isnull THEN free(s) ELSE s

(* line 121 testing the state alone, not whether it changed *)
ReportFlowState_EveryTick(s, changed, state, isnull, n) ==
    IF state = "pcp_state_failed"
    THEN ml_string(s, "Port forward => Mapping failed!")
    ELSE IF state = "pcp_state_succeeded"
    THEN FreeFlowInfo(LogFlowInfo(pcp_flow_get_info(s, s.PF_pcp_flow, isnull, n), 0, n),
                      isnull)
    ELSE s

(* line 123 followed by a call of multi_port_forward_close *)
ReportFlowState_FatalFailure(s, changed, state, isnull, n) ==
    IF ~changed THEN s
    ELSE IF state = "pcp_state_failed"
    THEN multi_port_forward_close(ml_string(s, "Port forward => Mapping failed!"))
    ELSE IF state = "pcp_state_succeeded"
    THEN FreeFlowInfo(LogFlowInfo(pcp_flow_get_info(s, s.PF_pcp_flow, isnull, n), 0, n),
                      isnull)
    ELSE s

(* lines 122-123 left out *)
ReportFlowState_SilentFailure(s, changed, state, isnull, n) ==
    IF ~changed THEN s
    ELSE IF state = "pcp_state_succeeded"
    THEN FreeFlowInfo(LogFlowInfo(pcp_flow_get_info(s, s.PF_pcp_flow, isnull, n), 0, n),
                      isnull)
    ELSE s

(* lines 121-153, after pcp_eval_flow_state returned (changed, state) *)
ReportFlowState(s, changed, state, isnull, n) ==
    IF ~changed THEN s
    ELSE IF state = "pcp_state_failed"
    THEN ml_string(s, "Port forward => Mapping failed!")
    ELSE IF state = "pcp_state_succeeded"
    THEN FreeFlowInfo(LogFlowInfo(pcp_flow_get_info(s, s.PF_pcp_flow, isnull, n), 0, n),
                      isnull)
    ELSE s

(* line 118 with a wait of at least one millisecond *)
PulseAndReschedule_MinInterval(s, hint, dt, tr) ==
    LET pulsed == {pcp_pulse(s0, s0.PF_pcp_ctx, hint, dt, tr) : s0 \in {s}}
        read == {timer_get_milliseconds(s1) : s1 \in pulsed}
    IN  Only({[s2 EXCEPT !.PF_wait_timestamp =
                             Add32(s2.now, IF hint < 1 THEN 1 ELSE hint)] : s2 \in read})

(* lines 116-118 *)
PulseAndReschedule(s, hint, dt, tr) ==
    LET pulsed == {pcp_pulse(s0, s0.PF_pcp_ctx, hint, dt, tr) : s0 \in {s}}
        read == {timer_get_milliseconds(s1) : s1 \in pulsed}
    IN  Only({[s2 EXCEPT !.PF_wait_timestamp = Add32(s2.now, hint)] : s2 \in read})

multi_port_forward_do(s, in) ==
    LET Report(s2) ==
            ReportFlowState(pcp_eval_flow_state(s2, s2.PF_pcp_flow),
                            s2.engChanged, s2.engState, in.isnull, in.n)
        Gated(s1) ==
            IF WaitGate(s1.PF_wait_timestamp, s1.now) THEN s1
            ELSE Only({Report(s2) : s2 \in {PulseAndReschedule(s1, in.hint, in.dt, in.tr)}})
    IN  IF ~s.PF_initted THEN s
        ELSE Only({Gated(s1) : s1 \in {timer_get_milliseconds(s)}})

-----------------------------------------------------------------------------
(* multi_port_forward_init; in = [gateway, gwRes, localRes, c, f, hint, dt,  *)
(* tr]: whether Cmdline_gateway_ip is set, what getaddrinfo answers for the  *)
(* gateway and for the local address, and the engine's answers.              *)

(* lines 56-58 left out *)
InitGuard_Missing(s) == FALSE

(* lines 56-58 *)
InitGuard(s) == s.PF_initted

(* lines 60-66 without the test of PF_get_addr's result *)
AutoDiscover_IgnoresResult(gateway, resolved) == ~gateway

(* lines 54-66: auto_discover stays true unless the gateway resolves *)
AutoDiscover(gateway, resolved) == ~(gateway /\ resolved)

DiscoveryMode(auto_discover) ==
    IF auto_discover THEN "ENABLE_AUTODISCOVERY" ELSE "DISABLE_AUTODISCOVERY"

(* line 78 moved above the test of line 72 *)
InitConstructFailed_MarksInitted(s) ==
    [ml_string(s, "Port forward => Initialization failed!") EXCEPT !.PF_initted = TRUE]

(* lines 72-75 *)
InitConstructFailed(s) == ml_string(s, "Port forward => Initialization failed!")

(* lines 89-93 without the call of line 91 *)
InitFlowFailed_NoClose(s) == ml_string(s, "Port forward => Failed to init mapping!")

(* lines 89-93 *)
InitFlowFailed(s) ==
    multi_port_forward_close(ml_string(s, "Port forward => Failed to init mapping!"))

(* lines 97-99 left out *)
InitFirstPulse_NoPulse(s, hint, dt, tr) ==
    ml_string(s, "Port forward => Initialized successfully")

(* lines 95-99 *)
InitFirstPulse(s, hint, dt, tr) ==
    PulseAndReschedule(ml_string(s, "Port forward => Initialized successfully"),
                       hint, dt, tr)

(* line 78 moved below line 87 *)
InitWithContext_LateFlag(s, auto_discover, in) ==
    LET s2 == IF ~auto_discover THEN pcp_add_server(s, s.PF_pcp_ctx, PCP_MAX_SUPPORTED_VERSION)
              ELSE s
        l  == PF_get_addr(s2, "nullptr", in.localRes)
        s3 == pcp_new_flow(l.s, s2.PF_pcp_ctx, l.addr, in.f)
        s4 == [s3 EXCEPT !.PF_pcp_flow = in.f, !.PF_initted = TRUE,
                         !.initAt = Len(s3.trace) + 1]
    IN  IF s4.PF_pcp_flow = NULL THEN InitFlowFailed(s4)
        ELSE InitFirstPulse(s4, in.hint, in.dt, in.tr)

(* lines 77-99, after pcp_init returned a context *)
InitWithContext(s, auto_discover, in) ==
    LET s1 == [s EXCEPT !.PF_initted = TRUE, !.initAt = Len(s.trace) + 1]
        s2 == IF ~auto_discover THEN pcp_add_server(s1, s1.PF_pcp_ctx, PCP_MAX_SUPPORTED_VERSION)
              ELSE s1
        l  == PF_get_addr(s2, "nullptr", in.localRes)
        s3 == pcp_new_flow(l.s, s2.PF_pcp_ctx, l.addr, in.f)
        s4 == [s3 EXCEPT !.PF_pcp_flow = in.f]
    IN  IF s4.PF_pcp_flow = NULL THEN InitFlowFailed(s4)
        ELSE InitFirstPulse(s4, in.hint, in.dt, in.tr)

multi_port_forward_init(s, in) ==
    IF InitGuard(s) THEN s
    ELSE LET g  == IF in.gateway THEN PF_get_addr(s, "Cmdline_gateway_ip", in.gwRes)
                   ELSE [s |-> s, ok |-> FALSE, addr |-> "uninitialized"]
             auto_discover == AutoDiscover(in.gateway, g.ok)
             s1 == PF_log_init(g.s)
             s2 == pcp_init(s1, DiscoveryMode(auto_discover), in.c)
             s3 == [s2 EXCEPT !.PF_pcp_ctx = in.c]
         IN  IF s3.PF_pcp_ctx = NULL THEN InitConstructFailed(s3)
             ELSE InitWithContext(s3, auto_discover, in)

-----------------------------------------------------------------------------
(* The environment's answers *)

RECURSIVE SeqsUpTo(_, _)
SeqsUpTo(S, n) ==
    IF n = 0 THEN {<<>>}
    ELSE LET shorter == SeqsUpTo(S, n - 1)
         IN  shorter \cup {Append(q, x) : q \in shorter, x \in S}

Resolutions ==
    {[err |-> TRUE, fams |-> <<>>]} \cup
    {[err |-> FALSE, fams |-> q] : q \in SeqsUpTo(Families, MaxAddrs)}

NoResolution == [err |-> TRUE, fams |-> <<>>]

(* getaddrinfo found an IPv4 or IPv6 address for the host *)
HasAddress(res) ==
    ~res.err /\ \E i \in 1..Len(res.fams) : res.fams[i] \in {"AF_INET", "AF_INET6"}

(* what an init call was given: whether a gateway host is configured, and   *)
(* whether the resolver has an address for it and for the local endpoint    *)
Given(gateway, gwRes, localRes) ==
    [gateway |-> gateway, gwFound |-> HasAddress(gwRes),
     localFound |-> HasAddress(localRes)]
NoArgs == Given(FALSE, NoResolution, NoResolution)

(* The engine hands out any address not in use; the session never looks    *)
(* into a handle, so the lowest free one stands for all of them.             *)
Lowest(S) == IF S = {} THEN NULL ELSE CHOOSE x \in S : \A y \in S : x <= y
FreshCtx(s) == Lowest(CtxIds \ s.liveCtx)
FreshFlow(s) == Lowest({f \in FlowIds : s.flowOwner[f] = NULL})
Transitions == {""} \cup FlowStates
Durations == {0, 1}     \* pcp_pulse returns within the millisecond, or not

(* what the next pcp_eval_flow_state reports when the pulse before it moves *)
(* the flow to tr                                                            *)
WillReportSuccess(s, tr) ==
    \/ tr = "pcp_state_succeeded"
    \/ tr = "" /\ s.engChanged /\ s.engState = "pcp_state_succeeded"

-----------------------------------------------------------------------------
(* The steps. An answer of the environment is drawn only where the call     *)
(* that receives it is made.                                                 *)

Store(after, op, a) ==
    \E s \in {after} :
    /\ PF_initted' = s.PF_initted
    /\ PF_pcp_ctx' = s.PF_pcp_ctx
    /\ PF_pcp_flow' = s.PF_pcp_flow
    /\ PF_wait_timestamp' = s.PF_wait_timestamp
    /\ now' = s.now
    /\ liveCtx' = s.liveCtx
    /\ flowOwner' = s.flowOwner
    /\ engState' = s.engState
    /\ engChanged' = s.engChanged
    /\ engineFault' = s.engineFault
    /\ trace' = s.trace
    /\ initAt' = s.initAt
    /\ lastOp' = op
    /\ args' = a

Init ==
    /\ PF_initted = FALSE
    /\ PF_pcp_ctx = NULL
    /\ PF_pcp_flow = NULL
    /\ PF_wait_timestamp = 0
    /\ now \in {0, IntMax - MaxClock}
    /\ liveCtx = {}
    /\ flowOwner = [f \in FlowIds |-> NULL]
    /\ engState = "pcp_state_processing"
    /\ engChanged = FALSE
    /\ engineFault = FALSE
    /\ lastOp = "start"
    /\ args = NoArgs
    /\ initAt = 0
    /\ trace = <<>>

CallInit ==
    \E gateway \in IF PF_initted THEN {FALSE} ELSE BOOLEAN :
    \E gwRes \in IF gateway THEN Resolutions ELSE {NoResolution},
       c \in IF PF_initted THEN {NULL} ELSE {NULL, FreshCtx(Cur)} :
    \E localRes \in IF c = NULL THEN {NoResolution} ELSE Resolutions,
       f \in IF c = NULL THEN {NULL} ELSE {NULL, FreshFlow(Cur)} :
    \E hint \in IF f = NULL THEN {0} ELSE Hints,
       dt \in IF f = NULL THEN {0} ELSE Durations,
       tr \in IF f = NULL THEN {""} ELSE Transitions :
        Store(multi_port_forward_init(Cur,
                  [gateway |-> gateway, gwRes |-> gwRes, localRes |-> localRes,
                   c |-> c, f |-> f, hint |-> hint, dt |-> dt, tr |-> tr]),
              "init",
              Given(gateway, gwRes, localRes))

CallDo ==
    LET due == PF_initted /\ ~(PF_wait_timestamp > now)
    IN  \E hint \in IF due THEN Hints ELSE {0},
           dt \in IF due THEN Durations ELSE {0},
           tr \in IF due THEN Transitions ELSE {""} :
        \E isnull \in IF due /\ WillReportSuccess(Cur, tr) THEN BOOLEAN ELSE {TRUE} :
        \E n \in IF isnull THEN {0} ELSE 0..MaxInfo :
            Store(multi_port_forward_do(Cur,
                      [hint |-> hint, dt |-> dt, tr |-> tr, isnull |-> isnull, n |-> n]),
                  "do", NoArgs)

CallClose == Store(multi_port_forward_close(Cur), "close", NoArgs)

(* a millisecond passes between two calls *)
ClockTick ==
    /\ now < ClockTop(now)
    /\ Store([Cur EXCEPT !.now = @ + 1], "clock", NoArgs)

Next == CallInit \/ CallDo \/ CallClose \/ ClockTick

Spec == Init /\ [][Next]_vars

-----------------------------------------------------------------------------
(* Reading a step's trace *)

NCalls(tr, callee) == Cardinality({i \in 1..Len(tr) : tr[i][1] = callee})
NLines(tr, line) == Cardinality({i \in 1..Len(tr) : tr[i][1] = "ml" /\ tr[i][2] = line})
IndexOf(tr, callee) == CHOOSE i \in 1..Len(tr) : tr[i][1] = callee
OnlyClockReads(tr) == \A i \in 1..Len(tr) : tr[i][1] = "timer_get_milliseconds"

session == <<PF_initted, PF_pcp_ctx, PF_pcp_flow, PF_wait_timestamp>>
engine == <<liveCtx, flowOwner, engState, engChanged, engineFault>>

-----------------------------------------------------------------------------
(* C1: a call of multi_port_forward_do on an initialized session while the  *)
(* clock is strictly below PF_wait_timestamp is a no-op: it reads the clock *)
(* and nothing else - no pulse, no flow state query, no log line - and      *)
(* PF_initted, both handles, PF_wait_timestamp and the engine are unchanged. *)
C1_TickBeforeDueIsNoOp ==
    [][(lastOp' = "do" /\ PF_initted /\ now < PF_wait_timestamp)
         => /\ OnlyClockReads(trace')
            /\ NCalls(trace', "pcp_pulse") = 0
            /\ NCalls(trace', "pcp_eval_flow_state") = 0
            /\ NCalls(trace', "ml") = 0
            /\ UNCHANGED <<session, engine, now>>]_vars

(* a call of _do returned at the gate: the clock it read is below the timestamp *)
C1_Witness ==
    /\ lastOp = "do"
    /\ PF_initted
    /\ Len(trace) = 1
    /\ trace[1][1] = "timer_get_milliseconds"
    /\ trace[1][3] < PF_wait_timestamp

(* C2: a call of multi_port_forward_do on an initialized session whose      *)
(* clock has reached PF_wait_timestamp (equality included) pulses the       *)
(* engine exactly once and sets PF_wait_timestamp to the clock read after   *)
(* that pulse plus the hint the pulse returned (an int sum); and no call of *)
(* _do pulses while the clock is below the timestamp the previous pulse set. *)
C2_DueTickPulsesOnce ==
    [][lastOp' = "do" =>
         /\ (PF_initted /\ now >= PF_wait_timestamp) =>
               /\ NCalls(trace', "pcp_pulse") = 1
               /\ LET p == IndexOf(trace', "pcp_pulse")
                  IN  /\ p < Len(trace')
                      /\ trace'[p + 1] = <<"timer_get_milliseconds", "", now'>>
                      /\ PF_wait_timestamp' = Add32(now', trace'[p][3])
         /\ NCalls(trace', "pcp_pulse") > 0 => PF_wait_timestamp <= now]_vars

(* a call of _do pulsed the engine *)
C2_Witness ==
    /\ lastOp = "do"
    /\ NCalls(trace, "pcp_pulse") = 1
    /\ PF_wait_timestamp > now

(* C3: multi_port_forward_init on an initialized session does nothing: no   *)
(* construction, AddServer, flow request, pulse or log line, and the        *)
(* session, the engine and the clock are as they were.                      *)
C3_InitIdempotent ==
    [][(lastOp' = "init" /\ PF_initted)
         => trace' = <<>> /\ UNCHANGED <<session, engine, now>>]_vars

(* init was called on an initialized session *)
C3_Witness == lastOp = "init" /\ PF_initted /\ trace = <<>>

(* C4: multi_port_forward_close on a session that is not initialized calls  *)
(* nothing and logs nothing; in every step pcp_terminate is called at most  *)
(* once, only on a context that is live (never on one already terminated),  *)
(* and with exactly one of the lines "Mapping removed" / "Shutdown".        *)
C4_ShutdownSafe ==
    [][/\ (lastOp' = "close" /\ ~PF_initted)
            => trace' = <<>> /\ UNCHANGED <<session, engine, now>>
       /\ NCalls(trace', "pcp_terminate") <= 1
       /\ NLines(trace', "Port forward => Mapping removed")
            + NLines(trace', "Port forward => Shutdown")
            = NCalls(trace', "pcp_terminate")
       /\ ~engineFault']_vars

(* close was called on a session that is not initialized, after a close *)
(* that terminated a context or an init that failed                       *)
C4_Witness == lastOp = "close" /\ trace = <<>> /\ ~PF_initted

(* C5: after multi_port_forward_close returns the session is not            *)
(* initialized, both handles are null and PF_wait_timestamp is 0.           *)
C5_ShutdownClears ==
    lastOp = "close" =>
        /\ ~PF_initted
        /\ PF_pcp_ctx = NULL
        /\ PF_pcp_flow = NULL
        /\ PF_wait_timestamp = 0

(* close ran on an initialized session *)
C5_Witness == lastOp = "close" /\ NCalls(trace, "pcp_terminate") = 1

-----------------------------------------------------------------------------
(* What pcp_eval_flow_state answered in the step, if it was called *)

Reported(tr, state) ==
    \E i \in 1..Len(tr) : tr[i] = <<"pcp_eval_flow_state", state, 1>>

(* the part of the trace after its k-th entry *)
After(tr, k) == SubSeq(tr, k + 1, Len(tr))

(* C6: a call of _do logs "Mapping failed!" exactly once when the flow      *)
(* state query it makes reports a change to failed, and not at all when the *)
(* query reports no change (the flow still in failed included) or another   *)
(* state; no other operation logs the line.                                 *)
C6_FailedReportedOnce ==
    NLines(trace, "Port forward => Mapping failed!")
        = IF lastOp = "do" /\ Reported(trace, "pcp_state_failed") THEN 1 ELSE 0

(* a due call of _do found the flow still in failed, with no new change:    *)
(* an earlier call had read the change to failed                            *)
C6_Witness ==
    /\ lastOp = "do"
    /\ \E i \in 1..Len(trace) : trace[i] = <<"pcp_eval_flow_state", "pcp_state_failed", 0>>
    /\ engState = "pcp_state_failed"

(* the lines of n flow-info entries, in list order *)
InfoLines(n) ==
    [i \in 1..(2 * n) |->
        IF i % 2 = 1
        THEN <<"ml", "Port forward => Mapping successful", (i - 1) \div 2>>
        ELSE <<"ml", "Port forward => Mapping valid until", (i - 2) \div 2>>]

(* C7: a call of _do whose flow state query reports a change to succeeded   *)
(* fetches the flow info once and logs, for its n entries, successful(i)    *)
(* then valid-until(i) for i = 0..n-1 in that order and nothing else; the   *)
(* list the engine returned is freed exactly once, after the last line (a   *)
(* null list, which has no entries, is not passed to free); a step that     *)
(* reports no change to succeeded fetches, logs and frees none of this.     *)
C7_SucceededReport ==
    IF lastOp = "do" /\ Reported(trace, "pcp_state_succeeded")
    THEN /\ NCalls(trace, "pcp_flow_get_info") = 1
         /\ LET g == IndexOf(trace, "pcp_flow_get_info")
                n == trace[g][3]
            IN  /\ trace[g - 1] = <<"pcp_eval_flow_state", "pcp_state_succeeded", 1>>
                /\ After(trace, g) =
                     InfoLines(n) \o (IF trace[g][2] = "list" THEN <<<<"free", "", 0>>>>
                                      ELSE <<>>)
    ELSE /\ NCalls(trace, "pcp_flow_get_info") = 0
         /\ NCalls(trace, "free") = 0
         /\ NLines(trace, "Port forward => Mapping successful") = 0
         /\ NLines(trace, "Port forward => Mapping valid until") = 0

(* a succeeded report of two entries was logged and its list freed *)
C7_Witness ==
    /\ lastOp = "do"
    /\ Reported(trace, "pcp_state_succeeded")
    /\ \E i \in 1..Len(trace) : trace[i] = <<"pcp_flow_get_info", "list", 2>>
    /\ trace[Len(trace)] = <<"free", "", 0>>

ConstructFailed(tr) ==
    \E i \in 1..Len(tr) : tr[i][1] = "pcp_init" /\ tr[i][3] = NULL
FlowRequestFailed(tr) ==
    \E i \in 1..Len(tr) : tr[i][1] = "pcp_new_flow" /\ tr[i][3] = NULL

(* C8: an init whose pcp_init returns null logs "Initialization failed!"    *)
(* once and returns with the session not initialized, no flow requested, no *)
(* pulse, the flow handle null and PF_wait_timestamp unchanged; on a        *)
(* session that is not initialized _do and _close do nothing, and init      *)
(* calls pcp_init (again).                                                  *)
C8_ConstructionFailure ==
    [][/\ (lastOp' = "init" /\ ConstructFailed(trace')) =>
            /\ NLines(trace', "Port forward => Initialization failed!") = 1
            /\ trace'[Len(trace')]
                 = <<"ml", "Port forward => Initialization failed!", 0>>
            /\ NCalls(trace', "pcp_new_flow") = 0
            /\ NCalls(trace', "pcp_pulse") = 0
            /\ NCalls(trace', "pcp_add_server") = 0
            /\ ~PF_initted'
            /\ PF_pcp_flow' = NULL
            /\ PF_wait_timestamp' = PF_wait_timestamp
            /\ UNCHANGED engine
       /\ (lastOp' \in {"do", "close"} /\ ~PF_initted) =>
            trace' = <<>> /\ UNCHANGED <<session, engine, now>>
       /\ (lastOp' = "init" /\ ~PF_initted) => NCalls(trace', "pcp_init") = 1]_vars

(* an init failed to construct the engine *)
C8_Witness ==
    /\ lastOp = "init"
    /\ ConstructFailed(trace)
    /\ NLines(trace, "Port forward => Initialization failed!") = 1
    /\ ~PF_initted

(* C9: an init whose pcp_new_flow returns null logs "Failed to init         *)
(* mapping!", then terminates the context it constructed, exactly once,     *)
(* makes no pulse, and returns with the session not initialized, both       *)
(* handles null, PF_wait_timestamp 0 and no context left live.              *)
C9_FlowRequestFailure ==
    (lastOp = "init" /\ FlowRequestFailed(trace)) =>
        /\ NLines(trace, "Port forward => Failed to init mapping!") = 1
        /\ NCalls(trace, "pcp_terminate") = 1
        /\ NCalls(trace, "pcp_pulse") = 0
        /\ LET f == IndexOf(trace, "pcp_new_flow")
               c == trace[IndexOf(trace, "pcp_init")][3]
           IN  /\ c # NULL
               /\ After(trace, f) =
                    << <<"ml", "Port forward => Failed to init mapping!", 0>>,
                       <<"pcp_terminate", "", c>>,
                       <<"ml", "Port forward => Shutdown", 0>> >>
        /\ ~PF_initted
        /\ PF_pcp_ctx = NULL
        /\ PF_pcp_flow = NULL
        /\ PF_wait_timestamp = 0
        /\ liveCtx = {}
        /\ ~engineFault

(* an init failed at the flow request and unwound *)
C9_Witness ==
    /\ lastOp = "init"
    /\ FlowRequestFailed(trace)
    /\ NCalls(trace, "pcp_terminate") = 1

(* C10: every init that runs calls pcp_init once, with auto-discovery       *)
(* disabled if and only if a gateway host is configured and the resolver    *)
(* has an address for it, otherwise enabled; when the context is            *)
(* constructed, pcp_add_server is called - once, after pcp_init and before  *)
(* pcp_new_flow - in exactly that case, and never otherwise.                *)
C10_ManualGateway ==
    (lastOp = "init" /\ trace # <<>>) =>
        /\ NCalls(trace, "pcp_init") = 1
        /\ LET manual == args.gateway /\ args.gwFound
               k == IndexOf(trace, "pcp_init")
           IN  /\ trace[k][2] = IF manual THEN "DISABLE_AUTODISCOVERY"
                                ELSE "ENABLE_AUTODISCOVERY"
               /\ NCalls(trace, "pcp_add_server")
                    = IF manual /\ trace[k][3] # NULL THEN 1 ELSE 0
               /\ (manual /\ trace[k][3] # NULL) =>
                    /\ trace[k + 1] = <<"pcp_add_server", "", PCP_MAX_SUPPORTED_VERSION>>
                    /\ NCalls(trace, "pcp_new_flow") = 1
                    /\ k + 1 < IndexOf(trace, "pcp_new_flow")

(* an init registered the configured gateway with the engine *)
C10_Witness ==
    /\ lastOp = "init"
    /\ args.gateway /\ args.gwFound
    /\ NCalls(trace, "pcp_add_server") = 1

-----------------------------------------------------------------------------
(* The local address was asked of the resolver in the step *)
LocalResolved(tr) ==
    \E i \in 1..Len(tr) : tr[i][1] = "getaddrinfo" /\ tr[i][2] = "nullptr"

(* C11: when the resolution of the local bind address fails during init,    *)
(* init does not go on to request a flow with the unresolved address.       *)
C11_LocalResolutionFatal ==
    (lastOp = "init" /\ LocalResolved(trace) /\ ~args.localFound)
        => NCalls(trace, "pcp_new_flow") = 0

(* C12: PF_wait_timestamp is >= 0 in every reachable state. *)
C12_TimestampNonNegative == PF_wait_timestamp >= 0

-----------------------------------------------------------------------------
(* The session in service: the application calls _do on every iteration of  *)
(* its loop and the clock advances. The engine keeps a change it has        *)
(* flagged readable until it is read, and the clock can reach every         *)
(* timestamp that is set (within the clock values explored).                *)

EngineKeepsChange ==
    (engChanged /\ NCalls(trace', "pcp_eval_flow_state") > 0)
        => trace'[IndexOf(trace', "pcp_eval_flow_state")]
             = <<"pcp_eval_flow_state", engState, 1>>

ClockReachesDue == PF_wait_timestamp' <= ClockTop(now')

InService(A) == A /\ EngineKeepsChange /\ ClockReachesDue

LiveNext ==
    \/ InService(CallInit)
    \/ InService(CallDo)
    \/ InService(CallClose)
    \/ InService(ClockTick)

LiveSpec ==
    /\ Init
    /\ [][LiveNext]_vars
    /\ WF_vars(InService(CallDo))
    /\ WF_vars(InService(ClockTick))

(* the engine has flagged a change to failed that the session has not read *)
FailedPending == PF_initted /\ engChanged /\ engState = "pcp_state_failed"

FailedLogged ==
    lastOp = "do" /\ NLines(trace, "Port forward => Mapping failed!") = 1

(* C13: once the engine has flagged a readable change to failed on an       *)
(* initialized session, with _do called again and again and the clock       *)
(* advancing, a call of _do eventually logs "Mapping failed!" (unless the   *)
(* session is shut down first); and the line is logged once per change      *)
(* read, never without one.                                                 *)
C13_FailedEventuallyReported ==
    /\ FailedPending ~> (FailedLogged \/ ~PF_initted)
    /\ [](NLines(trace, "Port forward => Mapping failed!")
            = IF lastOp = "do" /\ Reported(trace, "pcp_state_failed") THEN 1 ELSE 0)

(* a call of _do read the change to failed on a session still initialized   *)
(* and logged it                                                            *)
C13_Witness ==
    /\ FailedLogged
    /\ PF_initted
    /\ Reported(trace, "pcp_state_failed")
    /\ ~engChanged

-----------------------------------------------------------------------------
(* the call of init got a context from pcp_init and a flow from pcp_new_flow *)
InitSucceeded(tr) ==
    /\ NCalls(tr, "pcp_init") = 1
    /\ tr[IndexOf(tr, "pcp_init")][3] # NULL
    /\ NCalls(tr, "pcp_new_flow") = 1
    /\ tr[IndexOf(tr, "pcp_new_flow")][3] # NULL

(* C14: a call of multi_port_forward_init in which pcp_init and             *)
(* pcp_new_flow both succeed logs "Initialized successfully" exactly once,  *)
(* pulses the engine exactly once, does not call pcp_eval_flow_state, and   *)
(* returns with PF_initted true, PF_pcp_ctx and PF_pcp_flow the handles it  *)
(* was given (non-null), and PF_wait_timestamp the clock read after the     *)
(* pulse plus the hint the pulse returned (an int sum).                     *)
C14_SuccessfulInit ==
    (lastOp = "init" /\ InitSucceeded(trace)) =>
        /\ NLines(trace, "Port forward => Initialized successfully") = 1
        /\ NCalls(trace, "pcp_pulse") = 1
        /\ NCalls(trace, "pcp_eval_flow_state") = 0
        /\ PF_initted
        /\ PF_pcp_ctx # NULL /\ PF_pcp_ctx = trace[IndexOf(trace, "pcp_init")][3]
        /\ PF_pcp_flow # NULL /\ PF_pcp_flow = trace[IndexOf(trace, "pcp_new_flow")][3]
        /\ LET p == IndexOf(trace, "pcp_pulse")
           IN  /\ IndexOf(trace, "pcp_new_flow") < p
               /\ p + 1 = Len(trace)
               /\ trace[p + 1] = <<"timer_get_milliseconds", "", now>>
               /\ PF_wait_timestamp = Add32(now, trace[p][3])

(* an init that succeeded and whose first pulse asked for a wait *)
C14_Witness ==
    /\ lastOp = "init"
    /\ InitSucceeded(trace)
    /\ PF_initted
    /\ trace[IndexOf(trace, "pcp_pulse")][3] = 1
    /\ now < IntMax
    /\ PF_wait_timestamp = now + 1

-----------------------------------------------------------------------------
(* the places in tr of the calls of callee *)
Places(tr, callee) == {i \in 1..Len(tr) : tr[i][1] = callee}

(* C15: within one call of multi_port_forward_init, PF_log_init is called   *)
(* before pcp_init; PF_initted is set only after pcp_init returned a        *)
(* context, and is not set when it returned none; and pcp_add_server (when  *)
(* called), pcp_new_flow and the first pcp_pulse are called in that order,  *)
(* each after PF_initted was set.                                           *)
C15_InitOrder ==
    lastOp = "init" =>
        /\ \A c \in Places(trace, "pcp_init") :
               \E l \in Places(trace, "PF_log_init") : l < c
        /\ initAt # 0 =>
               \E c \in Places(trace, "pcp_init") : trace[c][3] # NULL /\ c < initAt
        /\ ConstructFailed(trace) => initAt = 0 /\ ~PF_initted
        /\ \A i \in Places(trace, "pcp_add_server") \cup Places(trace, "pcp_new_flow")
                    \cup Places(trace, "pcp_pulse") :
               initAt # 0 /\ initAt <= i
        /\ \A a \in Places(trace, "pcp_add_server"), f \in Places(trace, "pcp_new_flow") :
               a < f
        /\ \A f \in Places(trace, "pcp_new_flow"), p \in Places(trace, "pcp_pulse") :
               f < p
        /\ Places(trace, "pcp_pulse") # {} => Places(trace, "pcp_new_flow") # {}

(* an init with a gateway given that went all the way to the first pulse *)
C15_Witness ==
    /\ lastOp = "init"
    /\ initAt # 0
    /\ Places(trace, "PF_log_init") # {}
    /\ Places(trace, "pcp_add_server") # {}
    /\ Places(trace, "pcp_new_flow") # {}
    /\ Places(trace, "pcp_pulse") # {}

-----------------------------------------------------------------------------
(* C16: multi_port_forward_close on an initialized session logs "Mapping    *)
(* removed" when PF_pcp_flow is non-null at the call and "Shutdown" when it *)
(* is null, one line and never both; the "Shutdown" line appears only in a  *)
(* call of init whose pcp_new_flow failed (the close of line 91, made with  *)
(* a null flow), and a close called on a session that init left             *)
(* initialized logs "Mapping removed".                                      *)
C16_ShutdownLine ==
    /\ [][(lastOp' = "close" /\ PF_initted) =>
            /\ NLines(trace', "Port forward => Mapping removed")
                  = IF PF_pcp_flow # NULL THEN 1 ELSE 0
            /\ NLines(trace', "Port forward => Shutdown")
                  = IF PF_pcp_flow # NULL THEN 0 ELSE 1
            /\ NLines(trace', "Port forward => Mapping removed") = 1]_vars
    /\ [](NLines(trace, "Port forward => Shutdown")
            = IF lastOp = "init" /\ FlowRequestFailed(trace) THEN 1 ELSE 0)
    /\ []((lastOp = "init" /\ FlowRequestFailed(trace)) =>
            NLines(trace, "Port forward => Mapping removed") = 0)

(* a close called after a successful init removed the mapping *)
C16_Witness ==
    /\ lastOp = "close"
    /\ NCalls(trace, "pcp_terminate") = 1
    /\ NLines(trace, "Port forward => Mapping removed") = 1
    /\ NLines(trace, "Port forward => Shutdown") = 0

-----------------------------------------------------------------------------
(* C17: no call of multi_port_forward_do - gated or pulsing, whatever it    *)
(* reports - changes PF_initted, PF_pcp_ctx or PF_pcp_flow, or calls        *)
(* pcp_init, pcp_new_flow or pcp_terminate, so the engine's contexts and    *)
(* flows stay as they were; and a call of _do on a session whose flow has   *)
(* failed, made when the clock has reached PF_wait_timestamp, pulses the    *)
(* engine again.                                                            *)
C17_FailureNotFatal ==
    [][lastOp' = "do" =>
         /\ UNCHANGED <<PF_initted, PF_pcp_ctx, PF_pcp_flow, liveCtx, flowOwner>>
         /\ NCalls(trace', "pcp_init") = 0
         /\ NCalls(trace', "pcp_new_flow") = 0
         /\ NCalls(trace', "pcp_terminate") = 0
         /\ (PF_initted /\ engState = "pcp_state_failed" /\ PF_wait_timestamp <= now)
               => NCalls(trace', "pcp_pulse") = 1]_vars

(* a call of _do pulsed a session whose failure an earlier call had reported *)
C17_Witness ==
    /\ lastOp = "do"
    /\ NCalls(trace, "pcp_pulse") = 1
    /\ \E i \in 1..Len(trace) : trace[i] = <<"pcp_eval_flow_state", "pcp_state_failed", 0>>
    /\ PF_initted
    /\ PF_pcp_ctx \in liveCtx
    /\ PF_pcp_flow # NULL

-----------------------------------------------------------------------------
(* C18: between the calls of the public operations PF_initted is true,      *)
(* PF_pcp_ctx is non-null and PF_pcp_flow is non-null all together or not   *)
(* at all - a context without a flow is never left behind by init - and     *)
(* the engine holds at most one live context, the session's.                *)
C18_AllOrNothing ==
    /\ PF_initted <=> PF_pcp_ctx # NULL
    /\ PF_initted <=> PF_pcp_flow # NULL
    /\ Cardinality(liveCtx) <= 1
    /\ liveCtx = IF PF_initted THEN {PF_pcp_ctx} ELSE {}
    /\ PF_initted => flowOwner[PF_pcp_flow] = PF_pcp_ctx

(* init constructed a context, failed to get a flow and left nothing behind *)
C18_Witness ==
    /\ lastOp = "init"
    /\ \E i \in 1..Len(trace) : trace[i][1] = "pcp_init" /\ trace[i][3] # NULL
    /\ FlowRequestFailed(trace)
    /\ ~PF_initted
    /\ PF_pcp_ctx = NULL
    /\ PF_pcp_flow = NULL
    /\ liveCtx = {}

-----------------------------------------------------------------------------
(* the step pulsed the engine and the pulse returned a hint <= 0 *)
PulsedWithoutWait(tr) ==
    \E i \in 1..Len(tr) : tr[i][1] = "pcp_pulse" /\ tr[i][3] <= 0

(* C19: there is no minimum poll interval. A pulse that returns a hint <= 0 *)
(* leaves PF_wait_timestamp at or below the clock; the passing of time      *)
(* keeps it there; and a call of multi_port_forward_do made with            *)
(* PF_wait_timestamp at or below the clock pulses the engine - so every     *)
(* call of _do pulses for as long as the hints stay <= 0.                   *)
C19_NoMinimumInterval ==
    /\ []((PF_initted /\ PulsedWithoutWait(trace)) => PF_wait_timestamp <= now)
    /\ [][(lastOp' = "clock" /\ PF_wait_timestamp <= now)
            => PF_wait_timestamp' <= now']_vars
    /\ [][(lastOp' = "do" /\ PF_initted /\ PF_wait_timestamp <= now)
            => NCalls(trace', "pcp_pulse") = 1]_vars
    /\ [][(lastOp' = "do" /\ lastOp = "do" /\ PF_initted /\ PulsedWithoutWait(trace))
            => NCalls(trace', "pcp_pulse") = 1]_vars

(* a call of _do pulsed, was told not to wait, and left PF_wait_timestamp  *)
(* at the clock value the call started from                                *)
C19_Witness ==
    /\ lastOp = "do"
    /\ PF_initted
    /\ PulsedWithoutWait(trace)
    /\ PF_wait_timestamp <= now
    /\ trace[1] = <<"timer_get_milliseconds", "", PF_wait_timestamp>>
====
